---- MODULE Spec2Model ----
(***************************************************************************)
(* Model of src/gui/installer.rs: the installer window (InstallerApp, the  *)
(* Coordinator), the background thread it spawns (perform_installation,    *)
(* the Worker) and the mpsc channel between them.                          *)
(*                                                                         *)
(* Progress fractions are kept in tenths (0.1 is 1, 1.0 is 10): the code   *)
(* only uses the literals 0.0, 0.1, 0.2, 0.3, 0.5 and 1.0 and only their   *)
(* order matters.  A text built by format! is the sequence of its parts.   *)
(* egui reports at most one clicked widget per frame, so a frame carries   *)
(* at most one click.                                                      *)
(***************************************************************************)
EXTENDS Integers, Sequences, FiniteSets, TLC

VARIABLES
    install_type,   \* InstallerApp.install_type
    state,          \* InstallerApp.state
    chan,           \* messages sent and not yet received (sender/recv pair)
    cpc,            \* position of the GUI thread inside update()
    spawned,        \* number of thread::spawn calls made so far
    wpc,            \* position of the worker thread
    result,         \* value perform_installation returns to the closure
    fs,             \* the on-disk locations the collaborators act on
    sent,           \* history: every message the worker has sent
    received,       \* history: every message try_recv has returned
    calls,          \* history: collaborator invocations with their outcome
    exited,         \* std::process::exit has been called
    exitCode,       \* the code it was called with
    tick            \* history: channel, state and number of messages
                    \* received when the current call of update() began

vars == <<install_type, state, chan, cpc, spawned, wpc, result, fs,
          sent, received, calls, exited, exitCode, tick>>

(***************************************************************************)
(* Values                                                                  *)
(***************************************************************************)
VERSION == "VERSION"

NoFile == "<no file>"
StaleManifest == "<manifest of an earlier attempt>"
Truncated == "<truncated file>"

SelfInstall == [tag |-> "SelfInstall"]

AppInstall(name, display_name, manifest_content) ==
    [tag |-> "AppInstall", name |-> name, display_name |-> display_name,
     manifest_content |-> manifest_content]

InstallTypes ==
    {SelfInstall, AppInstall("app", "App", "manifest text")}

Confirmation == [tag |-> "Confirmation"]
Installing(p, msg) == [tag |-> "Installing", progress |-> p, message |-> msg]
Done(msg) == [tag |-> "Done", message |-> msg]
Error(msg) == [tag |-> "Error", message |-> msg]

Progress(p, msg) == [tag |-> "Progress", progress |-> p, message |-> msg]
Success(msg) == [tag |-> "Success", message |-> msg]
ErrorStatus(msg) == [tag |-> "Error", message |-> msg]

NoResult == [tag |-> "None"]
Ok(msg) == [tag |-> "Ok", msg |-> msg]
Err(fn) == [tag |-> "Err", msg |-> <<"error from ", fn>>]

IsTerminal(m) == m.tag \in {"Success", "Error"}

(***************************************************************************)
(* Initial state: InstallerApp::new for either request, on any disk.       *)
(***************************************************************************)
Init ==
    /\ install_type \in InstallTypes
    /\ state = Confirmation
    /\ chan = <<>>
    /\ cpc = "idle"
    /\ spawned = 0
    /\ wpc = "unspawned"
    /\ result = NoResult
    /\ fs \in [dirs : BOOLEAN, runtime : BOOLEAN,
               manifest : {NoFile, StaleManifest}, app : {FALSE}]
    /\ sent = <<>>
    /\ received = <<>>
    /\ calls = <<>>
    /\ exited = FALSE
    /\ exitCode = 0
    /\ tick = [chan |-> <<>>, state |-> Confirmation, nrecv |-> 0]

(***************************************************************************)
(* The channel                                                             *)
(***************************************************************************)
\* Sender::send: the receiver lives in InstallerApp until the process
\* ends, so the send always enqueues.
Send(m) ==
    /\ chan' = Append(chan, m)
    /\ sent' = Append(sent, m)

TryRecvPick_Newest(q) == q[Len(q)]

\* Receiver::try_recv returns the oldest pending message and removes it.
TryRecvPick(q) == Head(q)

(***************************************************************************)
(* The Worker: the closure given to thread::spawn and perform_installation *)
(***************************************************************************)
Try_Ignore(ok, next) == next

\* The ? operator: go on when the call returned Ok, return the Err
\* to the closure otherwise.
Try(ok, next) == IF ok THEN next ELSE "ret"

\* What the collaborators leave on disk: their effect when they return Ok,
\* nothing when they return Err.
ensure_dirs(d, ok) == IF ok THEN [d EXCEPT !.dirs = TRUE] ELSE d
install_self(d, ok) == IF ok THEN [d EXCEPT !.runtime = TRUE] ELSE d
install_app_from_manifest(d, ok) == IF ok THEN [d EXCEPT !.app = TRUE] ELSE d
\* std::fs::write(&manifest_path, manifest_content): the file holds the text
\* when it returns Ok; a failed write may already have truncated the file.
fs_write(d, text, ok, cut) ==
    IF ok THEN [d EXCEPT !.manifest = text]
    ELSE IF cut THEN [d EXCEPT !.manifest = Truncated] ELSE d

\* paths::install_path().exists()
install_path_exists(d) == d.runtime

WorkerRuns == ~exited /\ wpc \notin {"unspawned", "done"}

Finish_SendsSuccess(at, msg) ==
    /\ WorkerRuns /\ wpc = at
    /\ Send(Success(msg))
    /\ result' = Ok(msg)
    /\ wpc' = "ret"
    /\ UNCHANGED <<install_type, state, cpc, spawned, fs,
                   received, calls, exited, exitCode, tick>>

\* A step that only sends Progress(p, msg).
SendProgress(at, p, msg, next) ==
    /\ WorkerRuns /\ wpc = at
    /\ Send(Progress(p, msg))
    /\ wpc' = next
    /\ UNCHANGED <<install_type, state, cpc, spawned, result, fs,
                   received, calls, exited, exitCode, tick>>

Call_Retry(at, fn, ok, after, next) ==
    /\ WorkerRuns /\ wpc = at
    /\ calls' = Append(calls, [fn |-> fn, ok |-> ok])
    /\ fs' = after
    /\ result' = IF ok THEN result ELSE Err(fn)
    /\ wpc' = IF ok THEN next ELSE IF Len(calls) < 8 THEN at ELSE "ret"
    /\ UNCHANGED <<install_type, state, chan, cpc, spawned,
                   sent, received, exited, exitCode, tick>>

\* A step that calls the collaborator fn and applies ? to what it returns.
Call(at, fn, ok, after, next) ==
    /\ WorkerRuns /\ wpc = at
    /\ calls' = Append(calls, [fn |-> fn, ok |-> ok])
    /\ fs' = after
    /\ result' = IF ok THEN result ELSE Err(fn)
    /\ wpc' = Try(ok, next)
    /\ UNCHANGED <<install_type, state, chan, cpc, spawned,
                   sent, received, exited, exitCode, tick>>

\* The last step of either flow: Progress(1.0, "Done!") and the Ok value.
Finish(at, msg) ==
    /\ WorkerRuns /\ wpc = at
    /\ Send(Progress(10, <<"Done!">>))
    /\ result' = Ok(msg)
    /\ wpc' = "ret"
    /\ UNCHANGED <<install_type, state, cpc, spawned, fs,
                   received, calls, exited, exitCode, tick>>

---------------------------------------------------------------------------
\* InstallType::SelfInstall

SelfProgressDirs ==
    SendProgress("self_start", 1, <<"Creating directories...">>, "self_dirs")

SelfEnsureDirs ==
    \E ok \in BOOLEAN :
        Call("self_dirs", "ensure_dirs", ok, ensure_dirs(fs, ok), "self_copying")

SelfProgressCopy ==
    SendProgress("self_copying", 5, <<"Copying binary...">>, "self_copy")

SelfInstallSelf ==
    \E ok \in BOOLEAN :
        Call("self_copy", "install_self", ok, install_self(fs, ok), "self_finish")

SelfFinish_NoVersion ==
    Finish("self_finish",
           <<"Voidbox has been installed successfully!",
             "You can now use 'voidbox' from your terminal.">>)

SelfFinish ==
    Finish("self_finish",
           <<"Voidbox v", VERSION, " has been installed successfully!",
             "You can now use 'voidbox' from your terminal.">>)

---------------------------------------------------------------------------
\* InstallType::AppInstall

AppProgressPrepare_ParseFirst ==
    SendProgress("app_start", 1,
                 <<"Preparing to install ", install_type.display_name, "...">>,
                 "app_parsing")

AppProgressPrepare ==
    SendProgress("app_start", 1,
                 <<"Preparing to install ", install_type.display_name, "...">>,
                 "app_check")

AppCheckRuntime_Inverted ==
    /\ WorkerRuns /\ wpc = "app_check"
    /\ wpc' = IF install_path_exists(fs) THEN "app_boot" ELSE "app_parsing"
    /\ calls' = Append(calls, [fn |-> "install_path_exists", ok |-> TRUE,
                               found |-> install_path_exists(fs)])
    /\ UNCHANGED <<install_type, state, chan, cpc, spawned, result, fs,
                   sent, received, exited, exitCode, tick>>

\* if !paths::install_path().exists()
AppCheckRuntime ==
    /\ WorkerRuns /\ wpc = "app_check"
    /\ wpc' = IF ~install_path_exists(fs) THEN "app_boot" ELSE "app_parsing"
    /\ calls' = Append(calls, [fn |-> "install_path_exists", ok |-> TRUE,
                               found |-> install_path_exists(fs)])
    /\ UNCHANGED <<install_type, state, chan, cpc, spawned, result, fs,
                   sent, received, exited, exitCode, tick>>

AppProgressRuntime_Late ==
    SendProgress("app_boot", 4, <<"Installing Voidbox runtime...">>,
                 "app_boot_dirs")

AppProgressRuntime ==
    SendProgress("app_boot", 2, <<"Installing Voidbox runtime...">>,
                 "app_boot_dirs")

AppBootEnsureDirs ==
    \E ok \in BOOLEAN :
        Call("app_boot_dirs", "ensure_dirs", ok, ensure_dirs(fs, ok),
             "app_boot_self")

AppBootInstallSelf_Unchecked ==
    \E ok \in BOOLEAN :
        /\ WorkerRuns /\ wpc = "app_boot_self"
        /\ calls' = Append(calls, [fn |-> "install_self", ok |-> ok])
        /\ fs' = install_self(fs, ok)
        /\ wpc' = "app_parsing"
        /\ UNCHANGED <<install_type, state, chan, cpc, spawned, result,
                       sent, received, exited, exitCode, tick>>

AppBootInstallSelf ==
    \E ok \in BOOLEAN :
        Call("app_boot_self", "install_self", ok, install_self(fs, ok),
             "app_parsing")

AppProgressParse ==
    SendProgress("app_parsing", 3, <<"Parsing manifest...">>, "app_parse")

AppParseManifest ==
    \E ok \in BOOLEAN :
        Call("app_parse", "parse_manifest", ok, fs, "app_save_dirs")

AppSaveEnsureDirs_SkipWrite ==
    \E ok \in BOOLEAN :
        Call("app_save_dirs", "ensure_dirs", ok, ensure_dirs(fs, ok),
             "app_downloading")

AppSaveEnsureDirs ==
    \E ok \in BOOLEAN :
        Call("app_save_dirs", "ensure_dirs", ok, ensure_dirs(fs, ok), "app_save")

AppWriteManifest ==
    \E ok \in BOOLEAN, cut \in BOOLEAN :
        Call("app_save", "fs_write", ok,
             fs_write(fs, install_type.manifest_content, ok, cut),
             "app_downloading")

AppProgressDownload_Full ==
    SendProgress("app_downloading", 10, <<"Downloading and extracting...">>,
                 "app_install")

AppProgressDownload ==
    SendProgress("app_downloading", 5, <<"Downloading and extracting...">>,
                 "app_install")

AppInstallFromManifest ==
    \E ok \in BOOLEAN :
        Call("app_install", "install_app_from_manifest", ok,
             install_app_from_manifest(fs, ok), "app_finish")

AppFinish ==
    Finish("app_finish",
           <<install_type.display_name, " has been installed successfully!">>)

---------------------------------------------------------------------------
TerminalOf_AlwaysSuccess(r) == Success(r.msg)

\* The closure of thread::spawn: one terminal message from the result.
TerminalOf(r) ==
    IF r.tag = "Ok" THEN Success(r.msg) ELSE ErrorStatus(r.msg)

WorkerReturn_SilentOnErr ==
    /\ WorkerRuns /\ wpc = "ret"
    /\ IF result.tag = "Ok"
          THEN Send(TerminalOf(result))
          ELSE UNCHANGED <<chan, sent>>
    /\ wpc' = "done"
    /\ UNCHANGED <<install_type, state, cpc, spawned, result, fs,
                   received, calls, exited, exitCode, tick>>

WorkerReturn ==
    /\ WorkerRuns /\ wpc = "ret"
    /\ Send(TerminalOf(result))
    /\ wpc' = "done"
    /\ UNCHANGED <<install_type, state, cpc, spawned, result, fs,
                   received, calls, exited, exitCode, tick>>

Worker ==
    \/ SelfProgressDirs \/ SelfEnsureDirs \/ SelfProgressCopy
    \/ SelfInstallSelf \/ SelfFinish
    \/ AppProgressPrepare \/ AppCheckRuntime \/ AppProgressRuntime
    \/ AppBootEnsureDirs \/ AppBootInstallSelf \/ AppProgressParse
    \/ AppParseManifest \/ AppSaveEnsureDirs \/ AppWriteManifest
    \/ AppProgressDownload \/ AppInstallFromManifest \/ AppFinish
    \/ WorkerReturn

(***************************************************************************)
(* The Coordinator: InstallerApp                                           *)
(***************************************************************************)
ApplyStatus_ErrorAsDone(status) ==
    CASE status.tag = "Progress" -> Installing(status.progress, status.message)
      [] status.tag = "Success"  -> Done(status.message)
      [] status.tag = "Error"    -> Done(status.message)

\* match status { ... } inside the polling loop of update()
ApplyStatus(status) ==
    CASE status.tag = "Progress" -> Installing(status.progress, status.message)
      [] status.tag = "Success"  -> Done(status.message)
      [] status.tag = "Error"    -> Error(status.message)

\* eframe calls update() for the next frame.
UpdateBegin ==
    /\ ~exited /\ cpc = "idle"
    /\ cpc' = "poll"
    /\ tick' = [chan |-> chan, state |-> state, nrecv |-> Len(received)]
    /\ UNCHANGED <<install_type, state, chan, spawned, wpc, result, fs,
                   sent, received, calls, exited, exitCode>>

UpdatePoll_Once ==
    /\ ~exited /\ cpc = "poll"
    /\ chan # <<>>
    /\ state' = ApplyStatus(TryRecvPick(chan))
    /\ received' = Append(received, TryRecvPick(chan))
    /\ chan' = Tail(chan)
    /\ cpc' = "render"
    /\ UNCHANGED <<install_type, spawned, wpc, result, fs,
                   sent, calls, exited, exitCode, tick>>

\* One round of `while let Ok(status) = self.recv.try_recv()`.
UpdatePoll ==
    /\ ~exited /\ cpc = "poll"
    /\ chan # <<>>
    /\ state' = ApplyStatus(TryRecvPick(chan))
    /\ received' = Append(received, TryRecvPick(chan))
    /\ chan' = Tail(chan)
    /\ UNCHANGED <<install_type, cpc, spawned, wpc, result, fs,
                   sent, calls, exited, exitCode, tick>>

\* try_recv returns Err(Empty): the loop ends and the view is drawn.
UpdatePollEmpty ==
    /\ ~exited /\ cpc = "poll"
    /\ chan = <<>>
    /\ cpc' = "render"
    /\ UNCHANGED <<install_type, state, chan, spawned, wpc, result, fs,
                   sent, received, calls, exited, exitCode, tick>>

\* The entry point of the worker for the cloned request.
WorkerEntry(it) == IF it.tag = "SelfInstall" THEN "self_start" ELSE "app_start"

StartState_Tenth == Installing(1, <<"Starting installation...">>)
\* self.state = InstallerState::Installing { progress: 0.0, ... }
StartState == Installing(0, <<"Starting installation...">>)

start_installation ==
    /\ state' = StartState
    /\ spawned' = spawned + 1
    /\ wpc' = WorkerEntry(install_type)
    /\ result' = NoResult

\* std::process::exit(code)
Exit(code) ==
    /\ exited' = TRUE
    /\ exitCode' = code

InstallShown_WhileInstalling(st) == st.tag \in {"Confirmation", "Installing"}
CloseCode_AlwaysZero(st) == 0

CloseShown_WhileInstalling(st) == st.tag \in {"Installing", "Done", "Error"}

\* Which buttons the view of a state shows.
InstallShown(st) == st.tag = "Confirmation"
CancelShown(st) == st.tag = "Confirmation"
CloseShown(st) == st.tag \in {"Done", "Error"}

CancelCode == 0
CloseCode(st) == IF st.tag = "Done" THEN 0 ELSE 1

ClickInstall ==
    /\ ~exited /\ cpc = "render"
    /\ InstallShown(state)
    /\ start_installation
    /\ cpc' = "idle"
    /\ UNCHANGED <<install_type, chan, fs, sent, received, calls,
                   exited, exitCode, tick>>

ClickCancel_Failure ==
    /\ ~exited /\ cpc = "render"
    /\ CancelShown(state)
    /\ Exit(CloseCode(state))
    /\ UNCHANGED <<install_type, state, chan, cpc, spawned, wpc, result, fs,
                   sent, received, calls, tick>>

ClickCancel ==
    /\ ~exited /\ cpc = "render"
    /\ CancelShown(state)
    /\ Exit(CancelCode)
    /\ UNCHANGED <<install_type, state, chan, cpc, spawned, wpc, result, fs,
                   sent, received, calls, tick>>

ClickClose ==
    /\ ~exited /\ cpc = "render"
    /\ CloseShown(state)
    /\ Exit(CloseCode(state))
    /\ UNCHANGED <<install_type, state, chan, cpc, spawned, wpc, result, fs,
                   sent, received, calls, tick>>

\* A frame in which nothing is clicked.
NoClick ==
    /\ ~exited /\ cpc = "render"
    /\ cpc' = "idle"
    /\ UNCHANGED <<install_type, state, chan, spawned, wpc, result, fs,
                   sent, received, calls, exited, exitCode, tick>>

Coordinator ==
    \/ UpdateBegin \/ UpdatePoll \/ UpdatePollEmpty
    \/ ClickInstall \/ ClickCancel \/ ClickClose \/ NoClick

Next == Worker \/ Coordinator

Spec == Init /\ [][Next]_vars

\* The worker is an OS thread whose collaborator calls return, and the
\* window keeps being redrawn (the progress bar is animated, which requests
\* a repaint every frame while the state is Installing).
Tick == UpdateBegin \/ UpdatePoll \/ UpdatePollEmpty \/ NoClick

FairSpec == Spec /\ WF_vars(Worker) /\ WF_vars(Tick)

(***************************************************************************)
(* Properties                                                              *)
(***************************************************************************)
Indices(q) == 1..Len(q)
Terminals(q) == {i \in Indices(q) : IsTerminal(q[i])}
Progresses(q) == {i \in Indices(q) : q[i].tag = "Progress"}
Called(fn, ok) == \E i \in Indices(calls) : calls[i] = [fn |-> fn, ok |-> ok]
Invoked(fn) == \E i \in Indices(calls) : calls[i].fn = fn

\* C1: a spawned Worker sends exactly one terminal message (Success or
\* Error) whatever the collaborators return: never two, the terminal message
\* is the last message sent, and a Worker that has finished (or whose process
\* has exited) has sent one.
C1_OneTerminal ==
    /\ Cardinality(Terminals(sent)) <= 1
    /\ \A i \in Terminals(sent) : i = Len(sent)
    /\ wpc = "done" => Cardinality(Terminals(sent)) = 1
    /\ (spawned > 0 /\ exited) => Cardinality(Terminals(sent)) = 1

C1_Witness ==
    /\ wpc = "done"
    /\ install_type.tag = "AppInstall"
    /\ Len(sent) >= 3
    /\ sent[Len(sent)].tag = "Error"

\* C2: under every interleaving of sends and polls, what try_recv has
\* returned is a prefix of what the Worker sent, in the same order and with
\* nothing lost (the rest is still in the channel), and no Progress is
\* received after a Success or an Error.
C2_FifoPrefix ==
    /\ Len(received) <= Len(sent)
    /\ \A i \in Indices(received) : received[i] = sent[i]
    /\ sent = received \o chan
    /\ \A i, j \in Indices(received) :
           (i < j /\ IsTerminal(received[i])) => received[j].tag # "Progress"

C2_Witness ==
    /\ Len(received) >= 2
    /\ Len(chan) >= 2
    /\ cpc = "poll"

\* The step in which try_recv returns a message with the given tag.
Drains(tag) ==
    /\ cpc = "poll" /\ chan # <<>> /\ Head(chan).tag = tag
    /\ chan' = Tail(chan)
    /\ received' = Append(received, Head(chan))

\* C3: once the state is Done or Error no step changes it again, and the
\* state becomes Done only in a step that receives a Success and Error only
\* in a step that receives an Error.
C3_TerminalStateIsFinal ==
    [][ /\ state.tag \in {"Done", "Error"} => state' = state
        /\ (state'.tag = "Done" /\ state.tag # "Done") =>
               (Drains("Success") /\ state' = Done(Head(chan).message))
        /\ (state'.tag = "Error" /\ state.tag # "Error") =>
               (Drains("Error") /\ state' = Error(Head(chan).message))
      ]_vars

C3_Witness ==
    /\ state.tag = "Error"
    /\ received # <<>> /\ received[Len(received)].tag = "Error"
    /\ cpc = "render"
    /\ exited

\* C4: the state starts as Confirmation, every step that leaves Confirmation
\* ends in Installing with progress 0.0, and no step enters Confirmation
\* again (so Confirmation is left at most once).
C4_ConfirmationLeftOnce ==
    /\ state = Confirmation
    /\ [][ /\ (state.tag = "Confirmation" /\ state'.tag # "Confirmation") =>
                  (state'.tag = "Installing" /\ state'.progress = 0)
           /\ state.tag # "Confirmation" => state'.tag # "Confirmation"
         ]_vars

C4_Witness ==
    /\ state = StartState
    /\ spawned = 1
    /\ cpc = "poll"

\* C5: at most one Worker is ever spawned: a Worker is spawned only by a step
\* taken in Confirmation that leaves the state Installing, and once one has
\* been spawned the Install button is not shown again.
C5_AtMostOneWorker ==
    /\ [](spawned <= 1)
    /\ [](spawned >= 1 => ~InstallShown(state))
    /\ [][ spawned' # spawned =>
              /\ spawned' = spawned + 1
              /\ state.tag = "Confirmation"
              /\ state'.tag = "Installing"
         ]_vars

C5_Witness ==
    /\ spawned = 1
    /\ wpc = "done"
    /\ cpc = "render"
    /\ state.tag = "Done"

\* C6: every Progress fraction the Worker sends lies in [0.0, 1.0] (0..10
\* tenths) and is at least every fraction sent before it.
C6_ProgressMonotone ==
    /\ \A i \in Progresses(sent) : 0 <= sent[i].progress /\ sent[i].progress <= 10
    /\ \A i, j \in Progresses(sent) :
           i < j => sent[i].progress <= sent[j].progress

C6_Witness ==
    /\ Cardinality(Progresses(sent)) = 5
    /\ sent[2].progress = 2
    /\ wpc = "done"

\* C7: a cancel taken in Confirmation exits with code 0 with no Worker
\* spawned and no message ever sent; no Worker is spawned and nothing is
\* sent after the exit; and while no Worker has been spawned the channel is
\* empty.
C7_CancelIsClean ==
    /\ [](spawned = 0 => (sent = <<>> /\ chan = <<>> /\ received = <<>>))
    /\ []((exited /\ state.tag = "Confirmation") =>
              (exitCode = 0 /\ spawned = 0 /\ wpc = "unspawned" /\ sent = <<>>))
    /\ [][ exited => (spawned' = spawned /\ sent' = sent /\ wpc' = wpc) ]_vars

C7_Witness ==
    /\ exited
    /\ state.tag = "Confirmation"
    /\ exitCode = 0

\* C8: an exit has code 0 when taken from Confirmation or Done and code 1
\* when taken from Error (and is taken from no other state); an exit with
\* code 1 happens only if the Worker sent an Error, an exit from Done only
\* if it sent a Success.
C8_ExitCodes ==
    exited =>
        /\ state.tag \in {"Confirmation", "Done", "Error"}
        /\ state.tag \in {"Confirmation", "Done"} => exitCode = 0
        /\ state.tag = "Error" => exitCode = 1
        /\ exitCode = 1 => \E i \in Indices(sent) : sent[i].tag = "Error"
        /\ state.tag = "Done" => \E i \in Indices(sent) : sent[i].tag = "Success"

C8_Witness ==
    /\ exited
    /\ exitCode = 1
    /\ state.tag = "Error"

LastProgress(q) ==
    q[CHOOSE i \in Progresses(q) : \A j \in Progresses(q) : j <= i]

\* C9: in an app-install whose manifest fails to parse, app-install-from-
\* manifest is never invoked, the last Progress sent has fraction 0.3, the
\* message sent right after it is the only terminal message and is an Error,
\* and the Coordinator, once it has received everything, is in Error;
\* with or without the runtime bootstrap.
C9_ParseFailure ==
    Called("parse_manifest", FALSE) =>
        /\ install_type.tag = "AppInstall"
        /\ ~Invoked("install_app_from_manifest")
        /\ ~Invoked("fs_write")
        /\ Progresses(sent) # {}
        /\ LastProgress(sent).progress = 3
        /\ wpc \in {"ret", "done"}
        /\ wpc = "ret" => sent[Len(sent)] = LastProgress(sent)
        /\ wpc = "done" =>
               /\ sent[Len(sent)].tag = "Error"
               /\ sent[Len(sent) - 1] = LastProgress(sent)
               /\ Terminals(sent) = {Len(sent)}
        /\ (wpc = "done" /\ chan = <<>>) => state.tag = "Error"

C9_Witness ==
    /\ Called("parse_manifest", FALSE)
    /\ Called("install_self", TRUE)
    /\ wpc = "done"
    /\ state.tag = "Error"

\* C10: app-install-from-manifest is invoked only after a successful write
\* of the raw manifest text, which is then what the manifest file holds; if
\* app-install-from-manifest fails the Worker's terminal message is an Error
\* and the file still holds the text.
C10_ManifestSavedFirst ==
    /\ \A i \in Indices(calls) :
           calls[i].fn = "install_app_from_manifest" =>
               \E j \in 1..(i - 1) : calls[j] = [fn |-> "fs_write", ok |-> TRUE]
    /\ (wpc = "app_install" \/ Invoked("install_app_from_manifest")) =>
           fs.manifest = install_type.manifest_content
    /\ Called("install_app_from_manifest", FALSE) =>
           /\ wpc \in {"ret", "done"}
           /\ result.tag = "Err"
           /\ wpc = "done" => sent[Len(sent)].tag = "Error"
           /\ (wpc = "done" /\ chan = <<>>) => state.tag = "Error"

C10_Witness ==
    /\ Called("install_app_from_manifest", FALSE)
    /\ wpc = "done"
    /\ state.tag = "Error"
    /\ fs.manifest = install_type.manifest_content

Failed == \E i \in Indices(calls) : ~calls[i].ok
Fractions(q) == [i \in Indices(q) |-> q[i].progress]
Fns(q) == [i \in Indices(q) |-> q[i].fn]
Contains(text, part) == \E k \in Indices(text) : text[k] = part

\* C11: when every collaborator call returns and the window keeps being
\* redrawn, a Coordinator that is Installing eventually is Done or Error.
C11_InstallingEnds ==
    (state.tag = "Installing") ~> (state.tag \in {"Done", "Error"})

C11_Witness ==
    /\ state.tag \in {"Done", "Error"}
    /\ Len(received) >= 4
    /\ chan = <<>>
    /\ cpc = "idle"

\* C12: when a step of the Worker fails, it is the last collaborator call
\* (no later step, no retry), the Worker goes straight to reporting it, the
\* only message sent from then on is the one terminal Error, and nothing on
\* disk changes any more.
C12_FailureShortCircuits ==
    /\ [](\A i \in Indices(calls) : ~calls[i].ok => i = Len(calls))
    /\ [](Failed => (wpc \in {"ret", "done"} /\ result.tag = "Err"))
    /\ [][ Failed =>
             /\ calls' = calls
             /\ fs' = fs
             /\ \/ sent' = sent
                \/ /\ Terminals(sent) = {}
                   /\ sent' = Append(sent, ErrorStatus(result.msg))
         ]_vars

C12_Witness ==
    /\ Called("ensure_dirs", TRUE)
    /\ Called("install_self", FALSE)
    /\ fs.dirs /\ ~fs.runtime
    /\ wpc = "done"
    /\ sent[Len(sent)].tag = "Error"

\* C13: when every step of a self-install succeeds the Worker sends exactly
\* Progress 0.1, Progress 0.5, Progress 1.0 and a Success whose text contains
\* the version; directory-ensure is called before self-install; the
\* Coordinator, once it has received everything, is Done with that text, and
\* an exit from there has code 0.
C13_SelfInstallSuccess ==
    (install_type.tag = "SelfInstall" /\ wpc = "done" /\ ~Failed) =>
        /\ Len(sent) = 4
        /\ Fractions(SubSeq(sent, 1, 3)) = <<1, 5, 10>>
        /\ \A i \in 1..3 : sent[i].tag = "Progress"
        /\ sent[4].tag = "Success"
        /\ Contains(sent[4].message, VERSION)
        /\ Fns(calls) = <<"ensure_dirs", "install_self">>
        /\ chan = <<>> => state = Done(sent[4].message)
        /\ exited => (state.tag = "Done" /\ exitCode = 0)

C13_Witness ==
    /\ install_type.tag = "SelfInstall"
    /\ wpc = "done" /\ ~Failed
    /\ state.tag = "Done"
    /\ exited /\ exitCode = 0

SentFraction(p) ==
    \E i \in Progresses(sent) : sent[i].progress = p

\* C14: in an app-install the 0.2 step and the bootstrap calls
\* (directory-ensure, self-install) happen exactly when the runtime check
\* found nothing; when every step succeeds the fractions are 0.1, 0.3, 0.5,
\* 1.0 with the runtime present and 0.1, 0.2, 0.3, 0.5, 1.0 without it,
\* followed by a Success that names the display name.
C14_AppInstallSuccess ==
    (install_type.tag = "AppInstall" /\ calls # <<>>) =>
        /\ calls[1].fn = "install_path_exists"
        /\ SentFraction(2) <=> (~calls[1].found /\ wpc # "app_boot")
        /\ Invoked("install_self") => ~calls[1].found
        /\ Len(calls) >= 2 =>
               calls[2].fn = IF calls[1].found THEN "parse_manifest"
                             ELSE "ensure_dirs"
        /\ (Len(calls) >= 3 /\ ~calls[1].found) => calls[3].fn = "install_self"
        /\ (wpc = "done" /\ ~Failed) =>
               /\ Fractions(SubSeq(sent, 1, Len(sent) - 1)) =
                      IF calls[1].found THEN <<1, 3, 5, 10>>
                      ELSE <<1, 2, 3, 5, 10>>
               /\ \A i \in 1..(Len(sent) - 1) : sent[i].tag = "Progress"
               /\ sent[Len(sent)].tag = "Success"
               /\ Contains(sent[Len(sent)].message, install_type.display_name)
               /\ Fns(calls) =
                      IF calls[1].found
                      THEN <<"install_path_exists", "parse_manifest",
                             "ensure_dirs", "fs_write",
                             "install_app_from_manifest">>
                      ELSE <<"install_path_exists", "ensure_dirs",
                             "install_self", "parse_manifest", "ensure_dirs",
                             "fs_write", "install_app_from_manifest">>

C14_Witness ==
    /\ install_type.tag = "AppInstall"
    /\ wpc = "done" /\ ~Failed
    /\ Len(calls) = 7
    /\ Len(sent) = 6
    /\ state.tag = "Done"

\* C15: the process exits only from Confirmation, Done or Error, never
\* while the state is Installing; once a Worker has been spawned, an exit
\* happens only after a terminal message has been received.
C15_NoExitWhileInstalling ==
    /\ [](exited => state.tag \in {"Confirmation", "Done", "Error"})
    /\ []((exited /\ spawned > 0) => Terminals(received) # {})
    /\ [](state.tag = "Installing" =>
              ~ENABLED (ClickCancel \/ ClickClose))
    /\ [][ exited' # exited =>
              /\ state.tag \in {"Confirmation", "Done", "Error"}
              /\ state' = state
         ]_vars

C15_Witness ==
    /\ state.tag = "Installing"
    /\ cpc = "render"
    /\ wpc = "done"
    /\ ~exited

\* The messages received since the current call of update() began.
Drained == SubSeq(received, tick.nrecv + 1, Len(received))

\* The state a message is displayed as.
Shown(m) ==
    CASE m.tag = "Progress" -> [tag |-> "Installing", progress |-> m.progress,
                                message |-> m.message]
      [] m.tag = "Success"  -> [tag |-> "Done", message |-> m.message]
      [] m.tag = "Error"    -> [tag |-> "Error", message |-> m.message]

\* C16: when update() draws the view it has received, in order, every
\* message that was in the channel when it began; the state drawn is the one
\* of the last message received in this call, or the state the call began
\* with when it received none; and polling never waits: while polling,
\* either a message is taken or the loop ends.
C16_TickDrainsAll ==
    /\ cpc = "render" =>
           /\ Len(Drained) >= Len(tick.chan)
           /\ SubSeq(Drained, 1, Len(tick.chan)) = tick.chan
           /\ state = IF Drained = <<>> THEN tick.state
                      ELSE Shown(Drained[Len(Drained)])
    /\ (cpc = "poll" /\ ~exited) => ENABLED (UpdatePoll \/ UpdatePollEmpty)

C16_Witness ==
    /\ cpc = "render"
    /\ Len(tick.chan) >= 2
    /\ Len(Drained) > Len(tick.chan)
    /\ state.tag = "Installing"

\* The collaborator calls a request needs to have succeeded.
Required(it) ==
    IF it.tag = "SelfInstall" THEN {"ensure_dirs", "install_self"}
    ELSE {"parse_manifest", "fs_write", "install_app_from_manifest"}

\* C17: the state is Done only when no step failed and every step the
\* request needs returned success, and only through a Success message that
\* was received: the state carries the text of the last message received.
C17_DoneMeansSuccess ==
    state.tag = "Done" =>
        /\ ~Failed
        /\ \A fn \in Required(install_type) : Called(fn, TRUE)
        /\ wpc = "done"
        /\ received # <<>>
        /\ received[Len(received)].tag = "Success"
        /\ state.message = received[Len(received)].message
        /\ chan = <<>>

C17_Witness ==
    /\ state.tag = "Done"
    /\ install_type.tag = "AppInstall"
    /\ Called("install_app_from_manifest", TRUE)
    /\ cpc = "render"

InstallAppCalls ==
    {i \in Indices(calls) : calls[i].fn = "install_app_from_manifest"}

\* C18: in an app-install app-install-from-manifest is invoked at most
\* once, and only when the runtime check found the runtime or the bootstrap
\* (directory-ensure, then self-install) had succeeded before it.
C18_RuntimeBeforeApp ==
    /\ Cardinality(InstallAppCalls) <= 1
    /\ \A i \in InstallAppCalls :
           /\ calls[1].fn = "install_path_exists"
           /\ \/ calls[1].found
              \/ /\ i > 3
                 /\ calls[2] = [fn |-> "ensure_dirs", ok |-> TRUE]
                 /\ calls[3] = [fn |-> "install_self", ok |-> TRUE]

C18_Witness ==
    /\ InstallAppCalls # {}
    /\ ~calls[1].found
    /\ Called("install_self", TRUE)
    /\ wpc = "done"

\* C19: Progress 1.0 is sent only when no step has failed, and the only
\* message sent after it is the Success; a run that sends an Error has not
\* sent Progress 1.0, and the Coordinator never shows Installing at 1.0 in
\* a run with a failed step.
C19_FullProgressOnlyOnSuccess ==
    /\ \A i \in Progresses(sent) :
           sent[i].progress = 10 =>
               /\ ~Failed
               /\ result.tag = "Ok"
               /\ \/ i = Len(sent)
                  \/ (i = Len(sent) - 1 /\ sent[Len(sent)].tag = "Success")
    /\ (\E i \in Indices(sent) : sent[i].tag = "Error") => ~SentFraction(10)
    /\ (state.tag = "Installing" /\ state.progress = 10) =>
           (~Failed /\ result.tag = "Ok")

C19_Witness ==
    /\ state.tag = "Installing"
    /\ state.progress = 10
    /\ wpc = "done"
    /\ chan # <<>>

\* C20: in an app-install the bootstrap comes before the parse: when the
\* runtime check found nothing and the manifest fails to parse, the calls
\* are the check, a successful directory-ensure, a successful self-install
\* and the failed parse, in that order, what the two calls created is still
\* there, and the terminal message is an Error; the manifest file is
\* written only after a successful parse and is untouched otherwise.
C20_BootstrapBeforeParse ==
    /\ Called("parse_manifest", FALSE) =>
           /\ calls[1].fn = "install_path_exists"
           /\ ~calls[1].found =>
                  /\ Fns(calls) = <<"install_path_exists", "ensure_dirs",
                                    "install_self", "parse_manifest">>
                  /\ calls[2].ok /\ calls[3].ok
                  /\ fs.dirs /\ fs.runtime
           /\ wpc = "done" => sent[Len(sent)].tag = "Error"
    /\ \A i \in Indices(calls) :
           calls[i].fn = "fs_write" =>
               \E j \in 1..(i - 1) :
                   calls[j] = [fn |-> "parse_manifest", ok |-> TRUE]
    /\ ~Called("parse_manifest", TRUE) =>
           fs.manifest \in {NoFile, StaleManifest}

C20_Witness ==
    /\ Called("parse_manifest", FALSE)
    /\ ~calls[1].found
    /\ fs.dirs /\ fs.runtime
    /\ fs.manifest = StaleManifest
    /\ state.tag = "Error"

====
